---- MODULE Spec2Model ----
(***************************************************************************)
(* Verification model of pixi's solve-group aggregation                    *)
(* (src/workspace/solve_group.rs) and of its virtual-package synthesizer   *)
(* and host compatibility verifier (src/workspace/virtual_packages.rs).    *)
(*                                                                         *)
(* Three specifications share the variables:                               *)
(*   SpecSynth  - get_minimal_virtual_packages applied to every            *)
(*                (platform, system requirements) pair;                    *)
(*   SpecVerify - verify_current_platform_has_required_virtual_packages;   *)
(*   SpecGroup  - the solve groups and environments of a manifest.         *)
(***************************************************************************)
EXTENDS Integers, Sequences, FiniteSets, TLC

VARIABLES
    pc,                      \* position of the operation being run
    platform,                \* the Platform argument / environment.best_platform()
    system_requirements,     \* the SystemRequirements handed to the synthesizer
    virtual_packages,        \* Vec<VirtualPackage> returned by the synthesizer
    environment,             \* the Environment verified (name, platforms)
    detected,                \* what VirtualPackage::detect returned
    detect_calls,            \* number of calls of the detection oracle
    result,                  \* Result<(), VerifyCurrentPlatformError>
    examined,                \* iterations the comparison loop has started
    manifest,                \* the loaded workspace manifest
    view                     \* what the last query on the workspace returned

vars == << pc, platform, system_requirements, virtual_packages, environment,
           detected, detect_calls, result, examined, manifest, view >>

(***************************************************************************)
(* Versions (rattler_conda_types::Version) are modelled by the totally     *)
(* ordered values 0 .. MaxVer.                                             *)
(***************************************************************************)
MaxVer == 1

Versions == 0 .. MaxVer

\* Option<T>: None is the empty sequence, Some(v) the one-element sequence.
None == << >>

Some(v) == << v >>

IsSome(o) == Len(o) = 1

Unwrap(o) == o[1]

Option(S) == {None} \cup {Some(v) : v \in S}

\* Option::unwrap_or
UnwrapOr(o, d) == IF IsSome(o) THEN o[1] ELSE d

(***************************************************************************)
(* Platform (rattler_conda_types) and its predicates.                      *)
(***************************************************************************)
Platforms == {"noarch", "linux-64", "osx-64", "osx-arm64", "win-64", "emscripten-wasm32"}

is_linux(p) == p = "linux-64"

is_osx(p) == p \in {"osx-64", "osx-arm64"}

is_windows(p) == p = "win-64"

is_unix(p) == is_linux(p) \/ is_osx(p) \/ p = "emscripten-wasm32"

\* Archspec::from_platform: the architecture signature of a platform, if any.
ArchspecFromPlatform(p) ==
    CASE p \in {"linux-64", "osx-64", "win-64"} -> Some("x86_64")
      [] p = "osx-arm64" -> Some("m1")
      [] OTHER -> None

(***************************************************************************)
(* Default versions (pixi_default_versions).                               *)
(***************************************************************************)
default_linux_version == 1

default_glibc_version == 1

default_windows_version == 1

default_mac_os_version(p) == IF p = "osx-arm64" THEN 1 ELSE 0

(***************************************************************************)
(* SystemRequirements (pixi_manifest): every field optional; libc is a     *)
(* (family, version) pair.                                                 *)
(***************************************************************************)
LibcFamilies == {"glibc", "musl"}

LibCSystemRequirement == [family : LibcFamilies, version : Versions]

SystemRequirements ==
    [linux : Option(Versions), libc : Option(LibCSystemRequirement),
     macos : Option(Versions), cuda : Option(Versions)]

\* SystemRequirements::default()
DefaultRequirements == [linux |-> None, libc |-> None, macos |-> None, cuda |-> None]

\* LibCSystemRequirement::family_and_version
family_and_version(libc) == << libc.family, libc.version >>

(***************************************************************************)
(* VirtualPackage (rattler_virtual_packages): a tagged union.              *)
(***************************************************************************)
Unix == [kind |-> "Unix"]

Linux(v) == [kind |-> "Linux", version |-> v]

LibC(f, v) == [kind |-> "LibC", family |-> f, version |-> v]

Win(v) == [kind |-> "Win", version |-> v]

Osx(v) == [kind |-> "Osx", version |-> v]

Cuda(v) == [kind |-> "Cuda", version |-> v]

Archspec(s) == [kind |-> "Archspec", spec |-> s]

(***************************************************************************)
(* get_minimal_virtual_packages: the pushes of the function body, in the   *)
(* order of the code.                                                      *)
(***************************************************************************)
\* Variant with a fault: Cuda is pushed before Osx.
GetMinimalVirtualPackagesReordered(p, req) ==
    LET v0 == << >>
        v1 == IF is_unix(p) THEN Append(v0, Unix) ELSE v0
        v2 == IF is_linux(p)
              THEN LET version == UnwrapOr(req.linux, default_linux_version)
                       fv == IF IsSome(req.libc)
                             THEN family_and_version(Unwrap(req.libc))
                             ELSE << "glibc", default_glibc_version >>
                   IN  Append(Append(v1, Linux(version)), LibC(fv[1], fv[2]))
              ELSE v1
        v3 == IF is_windows(p)
              THEN Append(v2, Win(Some(default_windows_version)))
              ELSE v2
        v4 == IF IsSome(req.cuda) THEN Append(v3, Cuda(Unwrap(req.cuda))) ELSE v3
        v5 == IF is_osx(p)
              THEN Append(v4, Osx(UnwrapOr(req.macos, default_mac_os_version(p))))
              ELSE v4
        v6 == IF IsSome(ArchspecFromPlatform(p))
              THEN Append(v5, Archspec(Unwrap(ArchspecFromPlatform(p))))
              ELSE v5
    IN  v6

GetMinimalVirtualPackages(p, req) ==
    LET v0 == << >>
        \* Match high level platforms
        v1 == IF is_unix(p) THEN Append(v0, Unix) ELSE v0
        v2 == IF is_linux(p)
              THEN LET version == UnwrapOr(req.linux, default_linux_version)
                       fv == IF IsSome(req.libc)
                             THEN family_and_version(Unwrap(req.libc))
                             ELSE << "glibc", default_glibc_version >>
                   IN  Append(Append(v1, Linux(version)), LibC(fv[1], fv[2]))
              ELSE v1
        v3 == IF is_windows(p)
              THEN Append(v2, Win(Some(default_windows_version)))
              ELSE v2
        \* Add platform specific packages
        v4 == IF is_osx(p)
              THEN Append(v3, Osx(UnwrapOr(req.macos, default_mac_os_version(p))))
              ELSE v3
        \* Cuda
        v5 == IF IsSome(req.cuda) THEN Append(v4, Cuda(Unwrap(req.cuda))) ELSE v4
        \* Archspec is only based on the platform for now
        v6 == IF IsSome(ArchspecFromPlatform(p))
              THEN Append(v5, Archspec(Unwrap(ArchspecFromPlatform(p))))
              ELSE v5
    IN  v6

(***************************************************************************)
(* SpecSynth: the synthesizer applied to every input.                      *)
(***************************************************************************)
NoEnvironment == [name |-> "", platforms |-> {}]

NotDetected == [ok |-> FALSE, error |-> ""]

NoResult == [kind |-> "None"]

NoManifest == [environments |-> << >>]

NoView == [query |-> "none"]

SynthInit ==
    /\ pc = "start"
    /\ platform \in Platforms
    /\ system_requirements \in SystemRequirements
    /\ virtual_packages = << >>
    /\ environment = NoEnvironment
    /\ detected = NotDetected
    /\ detect_calls = 0
    /\ result = NoResult
    /\ examined = 0
    /\ manifest = NoManifest
    /\ view = NoView

Synthesize ==
    /\ pc = "start"
    /\ virtual_packages' = GetMinimalVirtualPackages(platform, system_requirements)
    /\ pc' = "synthesized"
    /\ UNCHANGED << platform, system_requirements, environment, detected,
                    detect_calls, result, examined, manifest, view >>

SynthNext == Synthesize

SpecSynth == SynthInit /\ [][SynthNext]_vars

(***************************************************************************)
(* Claim on the synthesizer.                                               *)
(***************************************************************************)
KindRank(k) ==
    CASE k = "Unix" -> 1 [] k = "Linux" -> 2 [] k = "LibC" -> 3 [] k = "Win" -> 4
      [] k = "Osx" -> 5 [] k = "Cuda" -> 6 [] k = "Archspec" -> 7

Kinds == {"Unix", "Linux", "LibC", "Win", "Osx", "Cuda", "Archspec"}

\* The element of each kind that must be present, or None.
ExpectedPackage(k, p, req) ==
    CASE k = "Unix" -> IF is_unix(p) THEN Some(Unix) ELSE None
      [] k = "Linux" ->
            IF is_linux(p)
            THEN Some(Linux(IF req.linux = None THEN default_linux_version ELSE req.linux[1]))
            ELSE None
      [] k = "LibC" ->
            IF is_linux(p)
            THEN Some(IF req.libc = None
                      THEN LibC("glibc", default_glibc_version)
                      ELSE LibC(req.libc[1].family, req.libc[1].version))
            ELSE None
      [] k = "Win" -> IF is_windows(p) THEN Some(Win(Some(default_windows_version))) ELSE None
      [] k = "Osx" ->
            IF is_osx(p)
            THEN Some(Osx(IF req.macos = None THEN default_mac_os_version(p) ELSE req.macos[1]))
            ELSE None
      [] k = "Cuda" -> IF req.cuda # None THEN Some(Cuda(req.cuda[1])) ELSE None
      [] k = "Archspec" ->
            IF ArchspecFromPlatform(p) # None
            THEN Some(Archspec(ArchspecFromPlatform(p)[1]))
            ELSE None

\* C1: the list returned by get_minimal_virtual_packages holds exactly the
\* expected elements (Unix iff unix; Linux and LibC iff linux, from the
\* requirements or the defaults; Windows with the default version iff windows;
\* Osx iff osx; Cuda iff requirements.cuda is set, on any platform; Archspec
\* iff the platform has a signature), no other element, each kind at most
\* once, in the order Unix < Linux < LibC < Windows < Osx < Cuda < Archspec.
C1_SynthesizerOrder ==
    pc = "synthesized" =>
        /\ \A i \in 1 .. Len(virtual_packages) :
              /\ virtual_packages[i].kind \in Kinds
              /\ LET e == ExpectedPackage(virtual_packages[i].kind, platform,
                                          system_requirements)
                 IN  e # None /\ e[1] = virtual_packages[i]
        /\ \A k \in Kinds :
              ExpectedPackage(k, platform, system_requirements) # None
                  => \E i \in 1 .. Len(virtual_packages) : virtual_packages[i].kind = k
        /\ \A i, j \in 1 .. Len(virtual_packages) :
              i < j => KindRank(virtual_packages[i].kind) < KindRank(virtual_packages[j].kind)

\* An osx-arm64 list with Unix, Osx, Cuda and Archspec has been synthesized
\* from requirements that set macos, cuda and linux.
C1_Witness ==
    /\ pc = "synthesized"
    /\ platform = "osx-arm64"
    /\ system_requirements.cuda # None
    /\ system_requirements.macos # None
    /\ system_requirements.linux # None
    /\ Len(virtual_packages) = 4

(***************************************************************************)
(* GenericVirtualPackage (rattler_conda_types): the name-keyed projection  *)
(* of a VirtualPackage, GenericVirtualPackage::from.                       *)
(***************************************************************************)
LibcName(family) == IF family = "glibc" THEN "__glibc" ELSE "__musl"

GenericVirtualPackageFrom(vp) ==
    CASE vp.kind = "Unix" -> [name |-> "__unix", version |-> 0, build_string |-> "0"]
      [] vp.kind = "Linux" ->
            [name |-> "__linux", version |-> vp.version, build_string |-> "0"]
      [] vp.kind = "LibC" ->
            [name |-> LibcName(vp.family), version |-> vp.version, build_string |-> "0"]
      [] vp.kind = "Win" ->
            [name |-> "__win", version |-> UnwrapOr(vp.version, 0), build_string |-> "0"]
      [] vp.kind = "Osx" ->
            [name |-> "__osx", version |-> vp.version, build_string |-> "0"]
      [] vp.kind = "Cuda" ->
            [name |-> "__cuda", version |-> vp.version, build_string |-> "0"]
      [] vp.kind = "Archspec" ->
            [name |-> "__archspec", version |-> 1, build_string |-> vp.spec]

\* Environment::virtual_packages, given what self.system_requirements() returns
EnvironmentVirtualPackages(env_requirements, p) ==
    GetMinimalVirtualPackages(p, env_requirements)

\* required_pkgs of the verifier
RequiredPkgs(p) ==
    LET vps == EnvironmentVirtualPackages(system_requirements, p)
    IN  [i \in 1 .. Len(vps) |-> GenericVirtualPackageFrom(vps[i])]

(***************************************************************************)
(* The host: what the detection oracle returns, keyed by name.             *)
(***************************************************************************)
VirtualPackageNames ==
    {"__unix", "__linux", "__glibc", "__musl", "__win", "__osx", "__cuda", "__archspec"}

BuildStrings == {"0", "x86_64"}

LocalPackages == [version : Versions, build_string : BuildStrings]

\* The maps the oracle may return for an environment whose required
\* capabilities have the names `names`: any entry, or none, for each of them.
\* The comparison looks up required names only.
SystemVirtualPackages(names) ==
    {[n \in VirtualPackageNames |-> IF n \in names THEN g[n] ELSE None] :
        g \in [names -> Option(LocalPackages)]}

DetectVirtualPackageErrors == {"io", "parse"}

(***************************************************************************)
(* VerifyCurrentPlatformError and the result of the verifier.              *)
(***************************************************************************)
Ok == [kind |-> "Ok"]

UnsupportedPlatform(env, p) ==
    [kind |-> "UnsupportedPlatform", environments_platforms |-> env.platforms,
     platform |-> p, environment |-> env.name]

DetectionVirtualPackagesError(e) ==
    [kind |-> "DetectionVirtualPackagesError", error |-> e]

MismatchingBuildString(req, local) ==
    [kind |-> "MismatchingBuildString", required |-> req.name,
     required_build_string |-> req.build_string,
     local_build_string |-> local.build_string]

MismatchingVersion(req, local) ==
    [kind |-> "MismatchingVersion", required |-> req.name,
     required_version |-> req.version, local_version |-> local.version]

MissingVirtualPackage(req) ==
    [kind |-> "MissingVirtualPackage", required |-> req.name,
     required_version |-> req.version,
     required_build_string |-> req.build_string]

(***************************************************************************)
(* The comparison loop of the verifier, from its i-th iteration on: the    *)
(* value returned and the number of iterations started.                    *)
(***************************************************************************)
\* Variant with a fault: a host version equal to the required one is refused
\* (>= where the code has >).
RECURSIVE CompareLoopStrict(_, _, _)
CompareLoopStrict(required, host, i) ==
    IF i > Len(required)
    THEN [result |-> Ok, examined |-> Len(required)]
    ELSE LET req_pkg == required[i]
         IN  IF req_pkg.name = "__archspec"
             THEN CompareLoopStrict(required, host, i + 1)
             ELSE IF IsSome(host[req_pkg.name])
                  THEN LET local_vpkg == Unwrap(host[req_pkg.name])
                       IN  IF req_pkg.build_string # local_vpkg.build_string
                           THEN [result |-> MismatchingBuildString(req_pkg, local_vpkg),
                                 examined |-> i]
                           ELSE IF req_pkg.version >= local_vpkg.version
                                THEN [result |-> MismatchingVersion(req_pkg, local_vpkg),
                                      examined |-> i]
                                ELSE CompareLoopStrict(required, host, i + 1)
                  ELSE [result |-> MissingVirtualPackage(req_pkg), examined |-> i]

\* Variant with a fault: archspec is compared like every other capability.
RECURSIVE CompareLoopWithArchspec(_, _, _)
CompareLoopWithArchspec(required, host, i) ==
    IF i > Len(required)
    THEN [result |-> Ok, examined |-> Len(required)]
    ELSE LET req_pkg == required[i]
         IN  IF IsSome(host[req_pkg.name])
             THEN LET local_vpkg == Unwrap(host[req_pkg.name])
                  IN  IF req_pkg.build_string # local_vpkg.build_string
                      THEN [result |-> MismatchingBuildString(req_pkg, local_vpkg),
                            examined |-> i]
                      ELSE IF req_pkg.version > local_vpkg.version
                           THEN [result |-> MismatchingVersion(req_pkg, local_vpkg),
                                 examined |-> i]
                           ELSE CompareLoopWithArchspec(required, host, i + 1)
             ELSE [result |-> MissingVirtualPackage(req_pkg), examined |-> i]

\* Variant with a fault: the version is compared before the build string.
RECURSIVE CompareLoopVersionFirst(_, _, _)
CompareLoopVersionFirst(required, host, i) ==
    IF i > Len(required)
    THEN [result |-> Ok, examined |-> Len(required)]
    ELSE LET req_pkg == required[i]
         IN  IF req_pkg.name = "__archspec"
             THEN CompareLoopVersionFirst(required, host, i + 1)
             ELSE IF IsSome(host[req_pkg.name])
                  THEN LET local_vpkg == Unwrap(host[req_pkg.name])
                       IN  IF req_pkg.version > local_vpkg.version
                           THEN [result |-> MismatchingVersion(req_pkg, local_vpkg),
                                 examined |-> i]
                           ELSE IF req_pkg.build_string # local_vpkg.build_string
                                THEN [result |-> MismatchingBuildString(req_pkg, local_vpkg),
                                      examined |-> i]
                                ELSE CompareLoopVersionFirst(required, host, i + 1)
                  ELSE [result |-> MissingVirtualPackage(req_pkg), examined |-> i]

RECURSIVE CompareLoop(_, _, _)
CompareLoop(required, host, i) ==
    IF i > Len(required)
    THEN [result |-> Ok, examined |-> Len(required)]
    ELSE LET req_pkg == required[i]
         IN  IF req_pkg.name = "__archspec"
             THEN \* Skip archspec packages completely for now.
                  CompareLoop(required, host, i + 1)
             ELSE IF IsSome(host[req_pkg.name])
                  THEN LET local_vpkg == Unwrap(host[req_pkg.name])
                       IN  IF req_pkg.build_string # local_vpkg.build_string
                           THEN [result |-> MismatchingBuildString(req_pkg, local_vpkg),
                                 examined |-> i]
                           ELSE IF req_pkg.version > local_vpkg.version
                                THEN [result |-> MismatchingVersion(req_pkg, local_vpkg),
                                      examined |-> i]
                                ELSE CompareLoop(required, host, i + 1)
                  ELSE [result |-> MissingVirtualPackage(req_pkg), examined |-> i]

(***************************************************************************)
(* SpecVerify: verify_current_platform_has_required_virtual_packages.      *)
(***************************************************************************)
\* The environments verified: the tested manifest's platforms, and an
\* environment declaring the other platforms.
VerifyEnvironments ==
    {[name |-> "default", platforms |-> {"linux-64", "osx-64"}],
     [name |-> "cross", platforms |-> Platforms \ {"linux-64", "osx-64"}]}

RequirementFields == {"linux", "libc", "macos", "cuda"}

\* The system requirements of the verified environment: the default ones and
\* those that set one field, to any value. Each field decides one required
\* capability and no other.
VerifyRequirements ==
    {DefaultRequirements}
    \cup {req \in SystemRequirements :
            \E f \in RequirementFields :
                req[f] # None /\ \A g \in RequirementFields \ {f} : req[g] = None}

VerifyInit ==
    /\ pc = "start"
    /\ environment \in VerifyEnvironments
    /\ platform \in Platforms
    /\ system_requirements \in VerifyRequirements
    /\ virtual_packages = << >>
    /\ detected = NotDetected
    /\ detect_calls = 0
    /\ result = NoResult
    /\ examined = 0
    /\ manifest = NoManifest
    /\ view = NoView

\* Variant with a fault: the oracle is called before the support check.
SupportCheckAfterDetection ==
    /\ pc = "start"
    /\ detect_calls' = detect_calls + 1
    /\ IF platform \notin environment.platforms
       THEN /\ result' = UnsupportedPlatform(environment, platform)
            /\ pc' = "done"
       ELSE /\ pc' = "supported"
            /\ UNCHANGED result
    /\ UNCHANGED << platform, system_requirements, virtual_packages, environment,
                    detected, examined, manifest, view >>

\* Is the current platform in the list of supported platforms?
SupportCheck ==
    /\ pc = "start"
    /\ IF platform \notin environment.platforms
       THEN /\ result' = UnsupportedPlatform(environment, platform)
            /\ pc' = "done"
       ELSE /\ pc' = "supported"
            /\ UNCHANGED result
    /\ UNCHANGED << platform, system_requirements, virtual_packages, environment,
                    detected, detect_calls, examined, manifest, view >>

\* VirtualPackage::detect(..)? : the oracle fails, and the error is returned,
\* or it yields the host's capabilities.
Detect ==
    /\ pc = "supported"
    /\ detect_calls' = detect_calls + 1
    /\ \/ \E e \in DetectVirtualPackageErrors :
            /\ detected' = [ok |-> FALSE, error |-> e]
            /\ result' = DetectionVirtualPackagesError(e)
            /\ pc' = "done"
       \/ \E h \in SystemVirtualPackages(
                      {RequiredPkgs(platform)[i].name :
                          i \in 1 .. Len(RequiredPkgs(platform))}) :
            /\ detected' = [ok |-> TRUE, packages |-> h]
            /\ pc' = "detected"
            /\ UNCHANGED result
    /\ UNCHANGED << platform, system_requirements, virtual_packages, environment,
                    examined, manifest, view >>

\* The synthesis of the required capabilities and the comparison loop.
Compare ==
    /\ pc = "detected"
    /\ virtual_packages' = EnvironmentVirtualPackages(system_requirements, platform)
    /\ LET r == CompareLoop(RequiredPkgs(platform), detected.packages, 1)
       IN  /\ result' = r.result
           /\ examined' = r.examined
    /\ pc' = "done"
    /\ UNCHANGED << platform, system_requirements, environment, detected,
                    detect_calls, manifest, view >>

VerifyNext == SupportCheck \/ Detect \/ Compare

SpecVerify == VerifyInit /\ [][VerifyNext]_vars

(***************************************************************************)
(* Claims on the verifier.                                                 *)
(***************************************************************************)
Compared == pc = "done" /\ detected.ok

Required == RequiredPkgs(platform)

Local(req) == detected.packages[req.name]

ComparisonErrors == {"MissingVirtualPackage", "MismatchingBuildString", "MismatchingVersion"}

\* C2: when the current platform is not among environment.platforms() the
\* verifier returns UnsupportedPlatform with the declared platforms, the
\* platform and the environment's name, and the detection oracle has not been
\* called; the oracle is called only once the support check has passed.
C2_FailFast ==
    /\ (pc = "done" /\ platform \notin environment.platforms) =>
          /\ result = [kind |-> "UnsupportedPlatform",
                       environments_platforms |-> environment.platforms,
                       platform |-> platform, environment |-> environment.name]
          /\ detect_calls = 0
    /\ result.kind = "UnsupportedPlatform" => detect_calls = 0
    /\ detect_calls > 0 =>
          pc \in {"detected", "done"} /\ platform \in environment.platforms
    /\ pc = "start" => detect_calls = 0

\* The verifier has returned UnsupportedPlatform.
C2_Witness ==
    /\ pc = "done"
    /\ platform = "win-64"
    /\ environment.name = "default"
    /\ result.kind = "UnsupportedPlatform"

WithoutArchspec(required) == SelectSeq(required, LAMBDA r : r.name # "__archspec")

\* C4: the verifier's result is the one it returns for the required list
\* without its Archspec capability, whatever the host reports for __archspec,
\* and no error is about __archspec.
C4_ArchspecExemption ==
    Compared =>
        /\ result = CompareLoop(WithoutArchspec(Required), detected.packages, 1).result
        /\ result.kind \in ComparisonErrors => result.required # "__archspec"

\* The verifier has succeeded with a required Archspec while the host reports
\* __archspec with another build string and a lower version.
C4_Witness ==
    /\ Compared
    /\ result = Ok
    /\ \E i \in 1 .. Len(Required) : Required[i].name = "__archspec"
    /\ detected.packages["__archspec"] = Some([version |-> 0, build_string |-> "0"])

Violates(req) ==
    /\ req.name # "__archspec"
    /\ \/ Local(req) = None
       \/ Local(req)[1].build_string # req.build_string
       \/ req.version > Local(req)[1].version

FirstViolation ==
    IF \E i \in 1 .. Len(Required) : Violates(Required[i])
    THEN CHOOSE i \in 1 .. Len(Required) :
            /\ Violates(Required[i])
            /\ \A j \in 1 .. (i - 1) : ~Violates(Required[j])
    ELSE 0

ExpectedError(req) ==
    IF Local(req) = None
    THEN [kind |-> "MissingVirtualPackage", required |-> req.name,
          required_version |-> req.version, required_build_string |-> req.build_string]
    ELSE IF Local(req)[1].build_string # req.build_string
         THEN [kind |-> "MismatchingBuildString", required |-> req.name,
               required_build_string |-> req.build_string,
               local_build_string |-> Local(req)[1].build_string]
         ELSE [kind |-> "MismatchingVersion", required |-> req.name,
               required_version |-> req.version,
               local_version |-> Local(req)[1].version]

\* C10: the verifier returns one outcome, that of the first failing step:
\* UnsupportedPlatform, else the oracle's error unchanged, else the error of
\* the first required capability (archspec aside, in synthesizer order) that
\* violates, which is Missing if the host lacks the name, else
\* MismatchingBuildString if the build strings differ, else MismatchingVersion;
\* no later capability is examined; it succeeds iff no step fails.
C10_FirstFailure ==
    /\ pc # "done" => result = NoResult
    /\ pc = "done" =>
        IF platform \notin environment.platforms
        THEN result.kind = "UnsupportedPlatform" /\ detect_calls = 0 /\ examined = 0
        ELSE /\ detect_calls = 1
             /\ IF ~detected.ok
                THEN /\ result = [kind |-> "DetectionVirtualPackagesError",
                                  error |-> detected.error]
                     /\ examined = 0
                ELSE IF FirstViolation = 0
                     THEN result = Ok /\ examined = Len(Required)
                     ELSE /\ result = ExpectedError(Required[FirstViolation])
                          /\ examined = FirstViolation

\* The verifier has reported a build string mismatch for a capability whose
\* host version is also too low, while a later capability is missing.
C10_Witness ==
    /\ Compared
    /\ result.kind = "MismatchingBuildString"
    /\ examined < Len(Required)
    /\ Required[examined].version > Local(Required[examined])[1].version
    /\ \E j \in (examined + 1) .. Len(Required) :
          Required[j].name # "__archspec" /\ Local(Required[j]) = None

(***************************************************************************)
(* The workspace manifest (pixi_manifest): features, environments in       *)
(* declaration order (the default environment first) and the solve groups  *)
(* the environments name.                                                  *)
(***************************************************************************)
PackageNames == {"a", "b", "c"}

DefaultFeatureName == "default"

\* The features an environment may list.
FeatureLists == {<< >>, <<"foo">>, <<"bar">>, <<"foo", "bar">>, <<"bar", "foo">>}

SolveGroupNames == {"group1", "group2"}

\* cuda = "12.0" of [feature.bar.system-requirements]
TestedCudaVersion == 1

\* [feature.*] tables: the dependencies and bar's cuda requirement of the
\* tested manifest, and any cuda requirement on foo.
FeatureTables ==
    {[f \in {DefaultFeatureName, "foo", "bar"} |->
        CASE f = DefaultFeatureName ->
                [name |-> f, dependencies |-> {"a"},
                 system_requirements |-> DefaultRequirements]
          [] f = "foo" ->
                [name |-> f, dependencies |-> {"b"},
                 system_requirements |-> [DefaultRequirements EXCEPT !.cuda = fc]]
          [] f = "bar" ->
                [name |-> f, dependencies |-> {"c"},
                 system_requirements |->
                    [DefaultRequirements EXCEPT !.cuda = Some(TestedCudaVersion)]]] :
     fc \in Option(Versions)}

\* [environments] entries as written, by name.
EnvironmentNames == <<"foo", "bar", "baz">>

EnvironmentDeclarations ==
    [1 .. Len(EnvironmentNames) ->
        [features : FeatureLists, no_default_feature : BOOLEAN,
         solve_group : Option(SolveGroupNames)]]

\* The default environment, and the declared ones after it.
DeclaredEnvironments(decls) ==
    << [name |-> "default", features |-> << >>, no_default_feature |-> FALSE,
        solve_group |-> None] >>
    \o [i \in 1 .. Len(decls) |->
          [name |-> EnvironmentNames[i], features |-> decls[i].features,
           no_default_feature |-> decls[i].no_default_feature,
           solve_group |-> decls[i].solve_group]]

GroupIndex(groups, name) ==
    IF \E i \in 1 .. Len(groups) : groups[i].name = name
    THEN CHOOSE i \in 1 .. Len(groups) : groups[i].name = name
    ELSE 0

\* The solve group named `name` gets environment env_idx; a name seen for the
\* first time adds a group.
AddSolveGroup(groups, name, env_idx) ==
    LET i == GroupIndex(groups, name)
    IN  IF i = 0
        THEN Append(groups, [name |-> name, environments |-> << env_idx >>])
        ELSE [groups EXCEPT ![i].environments = Append(@, env_idx)]

RECURSIVE BuildSolveGroups(_, _, _)
BuildSolveGroups(envs, i, groups) ==
    IF i > Len(envs)
    THEN groups
    ELSE BuildSolveGroups(envs, i + 1,
            IF IsSome(envs[i].solve_group)
            THEN AddSolveGroup(groups, Unwrap(envs[i].solve_group), i)
            ELSE groups)

\* The parsed manifest: every environment records the index of its group.
ParseManifest(decls, features) ==
    LET envs == DeclaredEnvironments(decls)
        groups == BuildSolveGroups(envs, 1, << >>)
    IN  [declarations |-> decls,
         features |-> features,
         environments |->
            [i \in 1 .. Len(envs) |->
                [name |-> envs[i].name, features |-> envs[i].features,
                 no_default_feature |-> envs[i].no_default_feature,
                 solve_group |->
                    IF IsSome(envs[i].solve_group)
                    THEN Some(GroupIndex(groups, Unwrap(envs[i].solve_group)))
                    ELSE None]],
         solve_groups |-> groups]

(***************************************************************************)
(* Environment and SolveGroup views of a manifest m.                       *)
(***************************************************************************)
WorkspaceId == "workspace"

\* SolveGroup { workspace, solve_group }: references, modelled by identities.
SolveGroupView(g) == [workspace |-> WorkspaceId, solve_group |-> g]

\* impl PartialEq for SolveGroup
SolveGroupEq(a, b) == a.solve_group = b.solve_group /\ a.workspace = b.workspace

\* Workspace::solve_groups
SolveGroups(m) == [g \in 1 .. Len(m.solve_groups) |-> SolveGroupView(g)]

\* Environment::solve_group
EnvironmentSolveGroup(m, e) ==
    IF IsSome(m.environments[e].solve_group)
    THEN Some(SolveGroupView(Unwrap(m.environments[e].solve_group)))
    ELSE None

\* Environment::features: the listed features, then the default feature
\* unless the environment excludes it.
EnvironmentFeatures(m, e) ==
    IF m.environments[e].no_default_feature
    THEN m.environments[e].features
    ELSE Append(m.environments[e].features, DefaultFeatureName)

\* Variant with a fault: the members are listed in reverse.
SolveGroupEnvironmentsReversed(m, g) ==
    LET envs == m.solve_groups[g].environments
    IN  [i \in 1 .. Len(envs) |-> envs[Len(envs) + 1 - i]]

\* SolveGroup::environments: the environments of the group's index list.
SolveGroupEnvironments(m, g) ==
    [i \in 1 .. Len(m.solve_groups[g].environments) |-> m.solve_groups[g].environments[i]]

RECURSIVE FlatMapFeatures(_, _, _)
FlatMapFeatures(m, envs, i) ==
    IF i > Len(envs)
    THEN << >>
    ELSE EnvironmentFeatures(m, envs[i]) \o FlatMapFeatures(m, envs, i + 1)

\* Itertools::unique_by: an element is yielded unless its key was yielded before.
RECURSIVE UniqueBy(_, _, _)
UniqueBy(s, i, used) ==
    IF i > Len(s)
    THEN << >>
    ELSE IF s[i] \in used
         THEN UniqueBy(s, i + 1, used)
         ELSE << s[i] >> \o UniqueBy(s, i + 1, used \cup {s[i]})

\* Variant with a fault: the features of every environment of the workspace.
SolveGroupFeaturesOfWorkspace(m, g) ==
    UniqueBy(FlatMapFeatures(m, [i \in 1 .. Len(m.environments) |-> i], 1), 1, {})

\* Variant with a fault: a repeated feature is kept at its last occurrence.
SolveGroupFeaturesLastSeen(m, g) ==
    LET all == FlatMapFeatures(m, SolveGroupEnvironments(m, g), 1)
        rev == [i \in 1 .. Len(all) |-> all[Len(all) + 1 - i]]
        u == UniqueBy(rev, 1, {})
    IN  [i \in 1 .. Len(u) |-> u[Len(u) + 1 - i]]

\* SolveGroup::features (feature names)
SolveGroupFeatures(m, g) ==
    UniqueBy(FlatMapFeatures(m, SolveGroupEnvironments(m, g), 1), 1, {})

(***************************************************************************)
(* FeaturesExt (pixi_manifest) over a sequence of feature names.           *)
(***************************************************************************)
MaxOption(a, b) ==
    IF a = None THEN b
    ELSE IF b = None THEN a
    ELSE IF a[1] >= b[1] THEN a ELSE b

\* libc: the higher version of one family; differing families are refused
\* when the manifest is loaded and have no value here.
UnionLibc(a, b) ==
    CASE a = None -> b
      [] a # None /\ b = None -> a
      [] a # None /\ b # None /\ a[1].family = b[1].family ->
            IF a[1].version >= b[1].version THEN a ELSE b

\* SystemRequirements::union
Union(a, b) ==
    [linux |-> MaxOption(a.linux, b.linux), libc |-> UnionLibc(a.libc, b.libc),
     macos |-> MaxOption(a.macos, b.macos), cuda |-> MaxOption(a.cuda, b.cuda)]

RECURSIVE FoldUnion(_, _, _, _)
FoldUnion(m, feats, i, acc) ==
    IF i > Len(feats)
    THEN acc
    ELSE FoldUnion(m, feats, i + 1, Union(acc, m.features[feats[i]].system_requirements))

\* FeaturesExt::local_system_requirements
LocalSystemRequirements(m, feats) == FoldUnion(m, feats, 1, DefaultRequirements)

\* FeaturesExt::combined_dependencies(None).names()
CombinedDependencyNames(m, feats) ==
    UNION {m.features[feats[i]].dependencies : i \in 1 .. Len(feats)}

\* Variant with a fault: the requirements of the group's first environment.
SolveGroupSystemRequirementsOfFirst(m, g) ==
    LocalSystemRequirements(m, EnvironmentFeatures(m, SolveGroupEnvironments(m, g)[1]))

\* Variant with a fault: the requirement seen last wins, not the highest.
SolveGroupSystemRequirementsLastWins(m, g) ==
    LET feats == SolveGroupFeatures(m, g)
        set == {i \in 1 .. Len(feats) : m.features[feats[i]].system_requirements.cuda # None}
    IN  IF set = {}
        THEN DefaultRequirements
        ELSE m.features[feats[CHOOSE i \in set : \A j \in set : j <= i]].system_requirements

\* SolveGroup::system_requirements
SolveGroupSystemRequirements(m, g) == LocalSystemRequirements(m, SolveGroupFeatures(m, g))

\* Environment::system_requirements: the group's when the environment has one
EnvironmentSystemRequirements(m, e) ==
    IF IsSome(EnvironmentSolveGroup(m, e))
    THEN SolveGroupSystemRequirements(m, Unwrap(EnvironmentSolveGroup(m, e)).solve_group)
    ELSE LocalSystemRequirements(m, EnvironmentFeatures(m, e))

(***************************************************************************)
(* SpecGroup: a manifest is loaded and its groups and environments are     *)
(* queried.                                                                *)
(***************************************************************************)
GroupInit ==
    /\ pc = "loaded"
    /\ manifest \in {ParseManifest(d, f) : d \in EnvironmentDeclarations, f \in FeatureTables}
    /\ view = NoView
    /\ platform = "linux-64"
    /\ system_requirements = DefaultRequirements
    /\ virtual_packages = << >>
    /\ environment = NoEnvironment
    /\ detected = NotDetected
    /\ detect_calls = 0
    /\ result = NoResult
    /\ examined = 0

\* The getters of one solve group of project.solve_groups().
QuerySolveGroup(g) ==
    /\ pc = "loaded"
    /\ view' = [query |-> "solve_group",
                group |-> SolveGroups(manifest)[g],
                name |-> manifest.solve_groups[g].name,
                environments |-> SolveGroupEnvironments(manifest, g),
                features |-> SolveGroupFeatures(manifest, g),
                system_requirements |-> SolveGroupSystemRequirements(manifest, g),
                dependencies |->
                    CombinedDependencyNames(manifest, SolveGroupFeatures(manifest, g))]
    /\ pc' = "queried"
    /\ UNCHANGED << platform, system_requirements, virtual_packages, environment,
                    detected, detect_calls, result, examined, manifest >>

\* The getters of one environment of project.environments(), and the
\* members each group of project.solve_groups() lists.
QueryEnvironment(e) ==
    /\ pc = "loaded"
    /\ view' = [query |-> "environment",
                environment |-> e,
                name |-> manifest.environments[e].name,
                solve_group |-> EnvironmentSolveGroup(manifest, e),
                listed_in |->
                    [g \in 1 .. Len(SolveGroups(manifest)) |->
                        SolveGroupEnvironments(manifest, g)],
                system_requirements |-> EnvironmentSystemRequirements(manifest, e),
                virtual_packages |->
                    EnvironmentVirtualPackages(
                        EnvironmentSystemRequirements(manifest, e), platform)]
    /\ pc' = "queried"
    /\ UNCHANGED << platform, system_requirements, virtual_packages, environment,
                    detected, detect_calls, result, examined, manifest >>

GroupNext ==
    \/ \E g \in 1 .. Len(manifest.solve_groups) : QuerySolveGroup(g)
    \/ \E e \in 1 .. Len(manifest.environments) : QueryEnvironment(e)

SpecGroup == GroupInit /\ [][GroupNext]_vars

(***************************************************************************)
(* Claims on solve groups, stated on the manifest as declared.             *)
(***************************************************************************)
\* The group an environment names in [environments] (the default names none).
DeclaredGroup(e) == IF e = 1 THEN None ELSE manifest.declarations[e - 1].solve_group

\* The environments naming the group called n.
Members(n) == {e \in 1 .. Len(manifest.environments) : DeclaredGroup(e) = Some(n)}

\* The features of an environment as declared, the default one included
\* unless the environment excludes it.
DeclaredFeatures(e) ==
    LET listed == IF e = 1 THEN << >> ELSE manifest.declarations[e - 1].features
        no_default == IF e = 1 THEN FALSE ELSE manifest.declarations[e - 1].no_default_feature
    IN  {listed[i] : i \in 1 .. Len(listed)}
        \cup (IF no_default THEN {} ELSE {DefaultFeatureName})

GroupFeatureSet(n) == UNION {DeclaredFeatures(e) : e \in Members(n)}

DependencyNamesOf(e) == UNION {manifest.features[f].dependencies : f \in DeclaredFeatures(e)}

IsTestedManifest ==
    /\ manifest.declarations[1] =
          [features |-> <<"foo">>, no_default_feature |-> FALSE, solve_group |-> Some("group1")]
    /\ manifest.declarations[2] =
          [features |-> <<"bar">>, no_default_feature |-> FALSE, solve_group |-> Some("group1")]
    /\ manifest.declarations[3] =
          [features |-> <<"bar">>, no_default_feature |-> TRUE, solve_group |-> Some("group2")]
    /\ manifest.features["foo"].system_requirements.cuda = None

\* C5: the names of a group's combined_dependencies() are the union of the
\* dependency names of its member environments, so an environment outside the
\* group contributes nothing; in the tested manifest group1 yields {a, b, c}
\* and group2 yields {c}.
C5_DependencyIsolation ==
    view.query = "solve_group" =>
        /\ view.dependencies = UNION {DependencyNamesOf(e) : e \in Members(view.name)}
        /\ IsTestedManifest =>
              /\ view.name = "group1" => view.dependencies = {"a", "b", "c"}
              /\ view.name = "group2" => view.dependencies = {"c"}

\* group2 of the tested manifest has been queried: its only member shares bar
\* with a member of group1 and excludes the default feature.
C5_Witness ==
    /\ view.query = "solve_group"
    /\ IsTestedManifest
    /\ view.name = "group2"
    /\ view.dependencies = {"c"}
    /\ "a" \in DependencyNamesOf(1)

FieldValues(f, feats) ==
    {manifest.features[x].system_requirements[f][1] :
        x \in {y \in feats : manifest.features[y].system_requirements[f] # None}}

Highest(S) == CHOOSE v \in S : \A w \in S : w <= v

\* The highest value of each version field over a set of features; a field
\* none of them sets stays unset.
MergedRequirements(feats) ==
    [f \in {"linux", "libc", "macos", "cuda"} |->
        IF f = "libc"
        THEN None
        ELSE IF FieldValues(f, feats) = {} THEN None ELSE Some(Highest(FieldValues(f, feats)))]

\* C6: a group's system_requirements() hold, for every field, the highest
\* value a member environment sets and nothing when no member sets it; an
\* environment outside every group keeps its own (the default environment's
\* cuda is None).
C6_MergeDominance ==
    /\ view.query = "solve_group" =>
          view.system_requirements = MergedRequirements(GroupFeatureSet(view.name))
    /\ (view.query = "environment" /\ DeclaredGroup(view.environment) = None) =>
          /\ view.system_requirements = MergedRequirements(DeclaredFeatures(view.environment))
          /\ view.name = "default" => view.system_requirements.cuda = None

\* A group whose members set cuda to a lower value, to the tested value and
\* not at all has been queried, the lower value being seen last.
C6_Witness ==
    /\ view.query = "solve_group"
    /\ view.system_requirements.cuda = Some(TestedCudaVersion)
    /\ manifest.features["foo"].system_requirements.cuda = Some(0)
    /\ view.features = <<"bar", "default", "foo">>

\* C7: a member environment's system_requirements() are its group's merged
\* requirements, also when its own features set none of them, and its
\* virtual packages are synthesized from them.
C7_SharedRequirements ==
    (view.query = "environment" /\ DeclaredGroup(view.environment) # None) =>
        LET merged == MergedRequirements(GroupFeatureSet(DeclaredGroup(view.environment)[1]))
        IN  /\ view.system_requirements = merged
            /\ view.virtual_packages = GetMinimalVirtualPackages(platform, merged)
            /\ merged.cuda # None =>
                  \E i \in 1 .. Len(view.virtual_packages) :
                      /\ view.virtual_packages[i].kind = "Cuda"
                      /\ view.virtual_packages[i].version = merged.cuda[1]

\* Environment foo of the tested manifest, whose features set no cuda, has
\* reported bar's cuda.
C7_Witness ==
    /\ view.query = "environment"
    /\ IsTestedManifest
    /\ view.name = "foo"
    /\ FieldValues("cuda", DeclaredFeatures(view.environment)) = {}
    /\ view.system_requirements.cuda = Some(TestedCudaVersion)

\* The members of the group named n in declaration order.
RECURSIVE Ascending(_)
Ascending(S) ==
    IF S = {}
    THEN << >>
    ELSE LET lo == CHOOSE x \in S : \A y \in S : x <= y
         IN  << lo >> \o Ascending(S \ {lo})

\* The features of environment e in its own order.
FeatureSeq(e) ==
    LET listed == IF e = 1 THEN << >> ELSE manifest.declarations[e - 1].features
        no_default == IF e = 1 THEN FALSE ELSE manifest.declarations[e - 1].no_default_feature
    IN  IF no_default THEN listed ELSE listed \o << DefaultFeatureName >>

\* Where feature f is first met when the members of group n are visited in
\* declaration order, each with its features in its own order.
FirstOccurrence(n, f) ==
    LET members == Ascending(Members(n))
        places == UNION {{<< k, l >> : l \in 1 .. Len(FeatureSeq(members[k]))} :
                            k \in 1 .. Len(members)}
        occ == {kl \in places : FeatureSeq(members[kl[1]])[kl[2]] = f}
    IN  CHOOSE kl \in occ :
            \A o \in occ : kl[1] < o[1] \/ (kl[1] = o[1] /\ kl[2] <= o[2])

Before(a, b) == a[1] < b[1] \/ (a[1] = b[1] /\ a[2] < b[2])

\* C8: a group's features() yield every feature of every member exactly once,
\* in the order of first occurrence when the members are visited in
\* declaration order and each member's features in its own order.
C8_FeatureOrder ==
    view.query = "solve_group" =>
        /\ \A i, j \in 1 .. Len(view.features) : i # j => view.features[i] # view.features[j]
        /\ {view.features[i] : i \in 1 .. Len(view.features)} = GroupFeatureSet(view.name)
        /\ \A i, j \in 1 .. Len(view.features) :
              i < j => Before(FirstOccurrence(view.name, view.features[i]),
                              FirstOccurrence(view.name, view.features[j]))

\* A group has been queried in which a later member lists bar before foo,
\* foo having been seen in the first member.
C8_Witness ==
    /\ view.query = "solve_group"
    /\ view.features = <<"foo", "default", "bar">>
    /\ Len(view.environments) = 2
    /\ FeatureSeq(view.environments[2]) = <<"bar", "foo">>

\* C9: an environment naming a solve group is listed by exactly one group of
\* solve_groups(), once, and its solve_group() is that group (same workspace,
\* same record); an environment naming none has solve_group() = None and is
\* listed by no group; a group lists exactly the environments naming it, in
\* declaration order.
C9_Partition ==
    /\ view.query = "solve_group" =>
          /\ view.environments = Ascending(Members(view.name))
          /\ view.environments # << >>
    /\ view.query = "environment" =>
          LET e == view.environment
              listing == {g \in 1 .. Len(view.listed_in) :
                             \E i \in 1 .. Len(view.listed_in[g]) : view.listed_in[g][i] = e}
          IN  IF DeclaredGroup(e) = None
              THEN view.solve_group = None /\ listing = {}
              ELSE /\ Cardinality(listing) = 1
                   /\ \A g \in listing :
                         /\ Cardinality({i \in 1 .. Len(view.listed_in[g]) :
                                            view.listed_in[g][i] = e}) = 1
                         /\ manifest.solve_groups[g].name = DeclaredGroup(e)[1]
                         /\ view.solve_group # None
                         /\ SolveGroupEq(view.solve_group[1], SolveGroups(manifest)[g])
                   /\ \A g \in 1 .. Len(view.listed_in) :
                         g \notin listing =>
                            ~SolveGroupEq(view.solve_group[1], SolveGroups(manifest)[g])

\* Environment bar of the tested manifest has been queried: the first of two
\* groups lists foo and bar, and bar's solve_group() is that group.
C9_Witness ==
    /\ view.query = "environment"
    /\ IsTestedManifest
    /\ view.name = "bar"
    /\ Len(view.listed_in) = 2
    /\ view.listed_in[1] = <<2, 3>>
    /\ view.solve_group = Some(SolveGroups(manifest)[1])

====
